---- MODULE Spec2Model ----
(***************************************************************************)
(* Traffic intersection controller (src/main.cpp): the phase sequence of   *)
(* loop(), the per-second countdown loops, the button polling of           *)
(* readButtons(), the output writes of the set*State helpers and the       *)
(* green-time policy.                                                      *)
(*                                                                         *)
(* Time is counted in ticks: one tick is one call of                       *)
(* waitOneSecondWithButtons(), i.e. PollsPerTick calls of readButtons().   *)
(* Every digitalWrite is a step of its own, so the states between the      *)
(* writes of one signal-state change are states of the model.              *)
(***************************************************************************)
EXTENDS Integers, Sequences, FiniteSets

\* ------------------------------------------------------------ bounds
\* Calls of readButtons() per tick. The source makes 50 (main.cpp:206); the
\* model scales the tick down, a tick staying one pass of that loop.
PollsPerTick == 1
\* Largest vehicle count the inputs are allowed to build up.
MaxCount == 16
\* Largest count the green-time policy is applied to in SpecPolicy.
MaxPolicyCount == 24

\* ------------------------------------------------------------ constants
HIGH == TRUE
LOW == FALSE

YELLOW_TIME_SEC == 3
PED_TIME_SEC == 8
BASE_GREEN_SEC == 10

PHASE_NS_GREEN == "NS_GREEN"
PHASE_NS_YELLOW == "NS_YELLOW"
PHASE_EW_GREEN == "EW_GREEN"
PHASE_EW_YELLOW == "EW_YELLOW"
PHASE_PED_GREEN == "PED_GREEN"

Phase == {PHASE_NS_GREEN, PHASE_NS_YELLOW, PHASE_EW_GREEN, PHASE_EW_YELLOW, PHASE_PED_GREEN}

Pins == {"NS_RED", "NS_YELLOW", "NS_GREEN", "EW_RED", "EW_YELLOW", "EW_GREEN", "PED_RED", "PED_GREEN"}

VARIABLES
  currentPhase,      \* Phase currentPhase
  trafficCountNS,    \* int trafficCountNS
  trafficCountEW,    \* int trafficCountEW
  pedRequest,        \* bool pedRequest
  lastNsBtnState,    \* bool lastNsBtnState
  lastEwBtnState,    \* bool lastEwBtnState
  lastPedBtnState,   \* bool lastPedBtnState
  pin,               \* level of every output pin
  lcdLine1,          \* first line of the LCD
  loopPos,           \* which statement of loop() is running (1..6)
  pc,                \* position inside the running phase function
  pending,           \* digitalWrites of the running set*State call still to do
  totalSecs,         \* local totalSecs of the running green phase
  remaining,         \* local remaining of the running countdown loop
  i,                 \* local i of waitOneSecondWithButtons
  ticks,             \* history: ticks completed since currentPhase was assigned
  entryCount,        \* history: own count read when the running green was entered
  lastYellow,        \* history: approach of the yellow phase entered last
  pedEdges,          \* history: where pedestrian edges were detected since the last yellow
                     \*   ended: "none"; "green"/"yellow", the kind of vehicle phase of the
                     \*   first edge detected in a vehicle phase; "inPed", during PED_GREEN only
  served,            \* history: pedEdges when the running PED_GREEN was entered ("none" outside one)
  pedRuns,           \* history: PED_GREEN phases entered since the last vehicle phase was entered
  polled,            \* history: the levels <<NS, EW, pedestrian>> read by the last readButtons()
  accepted,          \* history: per approach, the press edges detected while it was stopped
                     \*   since its green last ended
  clock              \* history, kept when clock.on: per approach, the ticks since its green
                     \*   last ended (wait) and those of them it was stopped in (stopped);
                     \*   pedEdges is kept when clock.on is false, so that a behaviour
                     \*   carries one of the two histories

vars == <<currentPhase, trafficCountNS, trafficCountEW, pedRequest, lastNsBtnState,
          lastEwBtnState, lastPedBtnState, pin, lcdLine1, loopPos, pc, pending,
          totalSecs, remaining, i, ticks, entryCount, lastYellow, pedEdges, served,
          pedRuns, polled, accepted, clock>>

\* ------------------------------------------------------------ red-status helpers
\* Faulty variant of isNsRed: NS also counts as red during its own yellow.
isNsRed_duringOwnYellow ==
  currentPhase = PHASE_EW_GREEN \/ currentPhase = PHASE_EW_YELLOW
    \/ currentPhase = PHASE_PED_GREEN \/ currentPhase = PHASE_NS_YELLOW

isNsRed ==
  currentPhase = PHASE_EW_GREEN \/ currentPhase = PHASE_EW_YELLOW \/ currentPhase = PHASE_PED_GREEN

\* Faulty variant of isEwRed: EW does not count as red during PED_GREEN.
isEwRed_notDuringPedestrian ==
  currentPhase = PHASE_NS_GREEN \/ currentPhase = PHASE_NS_YELLOW

isEwRed ==
  currentPhase = PHASE_NS_GREEN \/ currentPhase = PHASE_NS_YELLOW \/ currentPhase = PHASE_PED_GREEN

\* ------------------------------------------------------------ LED state helpers
\* Each helper is the sequence of digitalWrite(pin, level) calls it makes, in order.

\* Faulty variant of setAllVehicleRed: the write that switches the NS green off is missing.
setAllVehicleRed_keepsNsGreen ==
  << <<"NS_RED", HIGH>>, <<"NS_YELLOW", LOW>>,
     <<"EW_RED", HIGH>>, <<"EW_YELLOW", LOW>>, <<"EW_GREEN", LOW>> >>

setAllVehicleRed ==
  << <<"NS_RED", HIGH>>, <<"NS_YELLOW", LOW>>, <<"NS_GREEN", LOW>>,
     <<"EW_RED", HIGH>>, <<"EW_YELLOW", LOW>>, <<"EW_GREEN", LOW>> >>

setNsGreenState == setAllVehicleRed \o << <<"NS_RED", LOW>>, <<"NS_GREEN", HIGH>> >>

\* Faulty variant of setNsYellowState: the NS red is left on.
setNsYellowState_redLeftOn == setAllVehicleRed \o << <<"NS_YELLOW", HIGH>> >>

setNsYellowState == setAllVehicleRed \o << <<"NS_RED", LOW>>, <<"NS_YELLOW", HIGH>> >>

setEwGreenState == setAllVehicleRed \o << <<"EW_RED", LOW>>, <<"EW_GREEN", HIGH>> >>

setEwYellowState == setAllVehicleRed \o << <<"EW_RED", LOW>>, <<"EW_YELLOW", HIGH>> >>

\* Faulty variant of setPedestrianGreenState: the vehicle signals are not set to red first.
setPedestrianGreenState_noAllRed == << <<"PED_RED", LOW>>, <<"PED_GREEN", HIGH>> >>

setPedestrianGreenState == setAllVehicleRed \o << <<"PED_RED", LOW>>, <<"PED_GREEN", HIGH>> >>

\* The writes that end a pedestrian phase (main.cpp:345-347).
pedestrianStop == setAllVehicleRed \o << <<"PED_RED", HIGH>>, <<"PED_GREEN", LOW>> >>

\* ------------------------------------------------------------ green time computation
\* Faulty variant of computeNsGreenSeconds: the most recent press is left out.
computeNsGreenSeconds_withoutLastEdge ==
  LET extra == IF trafficCountNS - 1 >= 15 THEN 30
               ELSE IF trafficCountNS - 1 >= 10 THEN 20
               ELSE IF trafficCountNS - 1 >= 5 THEN 10
               ELSE 0
  IN BASE_GREEN_SEC + extra

computeNsGreenSeconds ==
  LET extra == IF trafficCountNS >= 15 THEN 30
               ELSE IF trafficCountNS >= 10 THEN 20
               ELSE IF trafficCountNS >= 5 THEN 10
               ELSE 0
  IN BASE_GREEN_SEC + extra

\* Faulty variant of computeEwGreenSeconds: the thresholds are compared with > instead of >=.
computeEwGreenSeconds_strict ==
  LET extra == IF trafficCountEW > 15 THEN 30
               ELSE IF trafficCountEW > 10 THEN 20
               ELSE IF trafficCountEW > 5 THEN 10
               ELSE 0
  IN BASE_GREEN_SEC + extra

computeEwGreenSeconds ==
  LET extra == IF trafficCountEW >= 15 THEN 30
               ELSE IF trafficCountEW >= 10 THEN 20
               ELSE IF trafficCountEW >= 5 THEN 10
               ELSE 0
  IN BASE_GREEN_SEC + extra

\* ------------------------------------------------------------ loop()
\* The six calls of loop(), in order; loop() itself is called again and again.
\* Faulty variant of LoopBody: the two EW phases are called in the wrong order.
LoopBody_ewSwapped ==
  << "phaseNsGreen", "phaseNsYellow", "phasePedestrianIfRequested",
     "phaseEwYellow", "phaseEwGreen", "phasePedestrianIfRequested" >>

\* Faulty variant of LoopBody: the pedestrian insertion points come before the yellows.
LoopBody_pedBeforeYellow ==
  << "phaseNsGreen", "phasePedestrianIfRequested", "phaseNsYellow",
     "phaseEwGreen", "phasePedestrianIfRequested", "phaseEwYellow" >>

\* Faulty variant of LoopBody: loop() never calls the EW phases.
LoopBody_nsOnly ==
  << "phaseNsGreen", "phaseNsYellow", "phasePedestrianIfRequested" >>

LoopBody ==
  << "phaseNsGreen", "phaseNsYellow", "phasePedestrianIfRequested",
     "phaseEwGreen", "phaseEwYellow", "phasePedestrianIfRequested" >>

running == LoopBody[loopPos]

\* ------------------------------------------------------------ state after setup()
Init ==
  /\ currentPhase = PHASE_NS_GREEN
  /\ trafficCountNS = 0
  /\ trafficCountEW = 0
  /\ pedRequest = FALSE
  /\ lastNsBtnState = HIGH
  /\ lastEwBtnState = HIGH
  /\ lastPedBtnState = HIGH
  /\ pin = [p \in Pins |-> p \in {"NS_RED", "EW_RED", "PED_RED"}]
  /\ lcdLine1 = "Traffic System"
  /\ loopPos = 1
  /\ pc = "entry"
  /\ pending = <<>>
  /\ totalSecs = 0
  /\ remaining = 0
  /\ i = 0
  /\ ticks = 0
  /\ entryCount = 0
  /\ lastYellow = "none"
  /\ pedEdges = "none"
  /\ served = "none"
  /\ pedRuns = 0
  /\ polled = <<HIGH, HIGH, HIGH>>
  /\ accepted = [NS |-> 0, EW |-> 0]
  /\ clock = [on |-> FALSE, waitNS |-> 0, waitEW |-> 0, stoppedNS |-> 0, stoppedEW |-> 0]

\* ------------------------------------------------------------ returning to loop()
\* The running phase function returns: loop() goes on with its next call, and
\* calls its first one again after its last.
Return ==
  /\ loopPos' = (loopPos % Len(LoopBody)) + 1
  /\ pc' = "entry"
  /\ totalSecs' = 0
  /\ remaining' = 0
  /\ i' = 0

\* History kept when currentPhase is assigned at the entry of a phase.
EnterPhase(ph) ==
  /\ ticks' = 0
  /\ lastYellow' = IF ph = PHASE_NS_YELLOW THEN "NS"
                   ELSE IF ph = PHASE_EW_YELLOW THEN "EW" ELSE lastYellow
  /\ pedEdges' = IF currentPhase \in {PHASE_NS_YELLOW, PHASE_EW_YELLOW} /\ ph # currentPhase
                 THEN "none" ELSE pedEdges
  /\ served' = IF ph = PHASE_PED_GREEN THEN pedEdges ELSE "none"
  /\ pedRuns' = IF ph = PHASE_PED_GREEN THEN pedRuns + 1 ELSE 0
  /\ accepted' = IF ph = PHASE_NS_YELLOW THEN [accepted EXCEPT !.NS = 0]
                 ELSE IF ph = PHASE_EW_YELLOW THEN [accepted EXCEPT !.EW = 0]
                 ELSE accepted
  /\ clock' = IF ph = PHASE_NS_GREEN THEN [clock EXCEPT !.waitNS = 0, !.stoppedNS = 0]
              ELSE IF ph = PHASE_EW_GREEN THEN [clock EXCEPT !.waitEW = 0, !.stoppedEW = 0]
              ELSE clock
  /\ UNCHANGED polled

\* ------------------------------------------------------------ digitalWrite
\* The next digitalWrite of the set*State call in progress.
digitalWrite ==
  /\ pending # <<>>
  /\ pin' = [pin EXCEPT ![Head(pending)[1]] = Head(pending)[2]]
  /\ pending' = Tail(pending)
  /\ UNCHANGED <<currentPhase, trafficCountNS, trafficCountEW, pedRequest, lastNsBtnState,
                 lastEwBtnState, lastPedBtnState, lcdLine1, loopPos, pc, totalSecs,
                 remaining, i, ticks, entryCount, lastYellow, pedEdges, served, pedRuns,
                 polled, accepted, clock>>

\* ------------------------------------------------------------ button handling
\* The latch after the pedestrian button was read (main.cpp:194-195).
\* Faulty variant of pedLatch: an edge toggles the latch instead of setting it.
pedLatch_toggle(pedEdge) == IF pedEdge THEN ~pedRequest ELSE pedRequest

pedLatch(pedEdge) == IF pedEdge THEN TRUE ELSE pedRequest

\* Faulty variant of readButtons: a count button's level is not recorded when its
\* edge is turned down, so the press is seen as new by the next call.
readButtons_forgetsDiscarded(nsBtn, ewBtn, pedBtn) ==
  LET nsEdge == nsBtn = LOW /\ lastNsBtnState = HIGH
      ewEdge == ewBtn = LOW /\ lastEwBtnState = HIGH
      pedEdge == pedBtn = LOW /\ lastPedBtnState = HIGH
      lcdNs == IF nsEdge THEN (IF isNsRed THEN "NS RED: Count" ELSE "NS not RED") ELSE lcdLine1
      lcdEw == IF ewEdge THEN (IF isEwRed THEN "EW RED: Count" ELSE "EW not RED") ELSE lcdNs
  IN /\ trafficCountNS' = IF nsEdge /\ isNsRed THEN trafficCountNS + 1 ELSE trafficCountNS
     /\ lastNsBtnState' = IF nsEdge /\ ~isNsRed THEN lastNsBtnState ELSE nsBtn
     /\ trafficCountEW' = IF ewEdge /\ isEwRed THEN trafficCountEW + 1 ELSE trafficCountEW
     /\ lastEwBtnState' = IF ewEdge /\ ~isEwRed THEN lastEwBtnState ELSE ewBtn
     /\ pedRequest' = pedLatch(pedEdge)
     /\ lastPedBtnState' = pedBtn
     /\ lcdLine1' = IF pedEdge THEN "Pedestrian Req" ELSE lcdEw
     /\ pedEdges' = IF clock.on \/ ~pedEdge \/ pedEdges \in {"green", "yellow"} THEN pedEdges
                    ELSE IF currentPhase = PHASE_PED_GREEN THEN "inPed"
                    ELSE IF currentPhase \in {PHASE_NS_GREEN, PHASE_EW_GREEN} THEN "green"
                    ELSE "yellow"
     /\ polled' = <<nsBtn, ewBtn, pedBtn>>
     /\ accepted' =
          [NS |-> IF nsBtn = LOW /\ polled[1] = HIGH
                     /\ currentPhase \in {PHASE_EW_GREEN, PHASE_EW_YELLOW, PHASE_PED_GREEN}
                  THEN accepted.NS + 1 ELSE accepted.NS,
           EW |-> IF ewBtn = LOW /\ polled[2] = HIGH
                     /\ currentPhase \in {PHASE_NS_GREEN, PHASE_NS_YELLOW, PHASE_PED_GREEN}
                  THEN accepted.EW + 1 ELSE accepted.EW]

\* One call of readButtons() that reads the three levels nsBtn, ewBtn, pedBtn.
readButtons(nsBtn, ewBtn, pedBtn) ==
  LET nsEdge == nsBtn = LOW /\ lastNsBtnState = HIGH
      ewEdge == ewBtn = LOW /\ lastEwBtnState = HIGH
      pedEdge == pedBtn = LOW /\ lastPedBtnState = HIGH
      lcdNs == IF nsEdge THEN (IF isNsRed THEN "NS RED: Count" ELSE "NS not RED") ELSE lcdLine1
      lcdEw == IF ewEdge THEN (IF isEwRed THEN "EW RED: Count" ELSE "EW not RED") ELSE lcdNs
  IN /\ trafficCountNS' = IF nsEdge /\ isNsRed THEN trafficCountNS + 1 ELSE trafficCountNS
     /\ lastNsBtnState' = nsBtn
     /\ trafficCountEW' = IF ewEdge /\ isEwRed THEN trafficCountEW + 1 ELSE trafficCountEW
     /\ lastEwBtnState' = ewBtn
     /\ pedRequest' = pedLatch(pedEdge)
     /\ lastPedBtnState' = pedBtn
     /\ lcdLine1' = IF pedEdge THEN "Pedestrian Req" ELSE lcdEw
     /\ pedEdges' = IF clock.on \/ ~pedEdge \/ pedEdges \in {"green", "yellow"} THEN pedEdges
                    ELSE IF currentPhase = PHASE_PED_GREEN THEN "inPed"
                    ELSE IF currentPhase \in {PHASE_NS_GREEN, PHASE_EW_GREEN} THEN "green"
                    ELSE "yellow"
     /\ polled' = <<nsBtn, ewBtn, pedBtn>>
     /\ accepted' =
          [NS |-> IF nsBtn = LOW /\ polled[1] = HIGH
                     /\ currentPhase \in {PHASE_EW_GREEN, PHASE_EW_YELLOW, PHASE_PED_GREEN}
                  THEN accepted.NS + 1 ELSE accepted.NS,
           EW |-> IF ewBtn = LOW /\ polled[2] = HIGH
                     /\ currentPhase \in {PHASE_NS_GREEN, PHASE_NS_YELLOW, PHASE_PED_GREEN}
                  THEN accepted.EW + 1 ELSE accepted.EW]

\* History kept when waitOneSecondWithButtons() returns: one more tick for every
\* approach whose green is not running, a stopped one for every approach that
\* is neither in its green nor in its yellow.
tickClock ==
  IF ~clock.on THEN clock
  ELSE [clock EXCEPT
          !.waitNS = IF currentPhase # PHASE_NS_GREEN THEN @ + 1 ELSE @,
          !.waitEW = IF currentPhase # PHASE_EW_GREEN THEN @ + 1 ELSE @,
          !.stoppedNS = IF currentPhase \in {PHASE_EW_GREEN, PHASE_EW_YELLOW, PHASE_PED_GREEN}
                        THEN @ + 1 ELSE @,
          !.stoppedEW = IF currentPhase \in {PHASE_NS_GREEN, PHASE_NS_YELLOW, PHASE_PED_GREEN}
                        THEN @ + 1 ELSE @]

\* One iteration of the loop of waitOneSecondWithButtons(): a readButtons() call;
\* after the last iteration the tick is over and the countdown loop of the
\* running phase goes on with remaining--.
waitOneSecondWithButtons ==
  /\ pc = "wait"
  /\ pending = <<>>
  /\ i < PollsPerTick
  /\ \E nsBtn \in {HIGH, LOW}, ewBtn \in {HIGH, LOW}, pedBtn \in {HIGH, LOW} :
        readButtons(nsBtn, ewBtn, pedBtn)
  /\ trafficCountNS' <= MaxCount
  /\ trafficCountEW' <= MaxCount
  /\ IF i + 1 < PollsPerTick
     THEN /\ i' = i + 1
          /\ UNCHANGED <<pc, remaining, ticks, clock>>
     ELSE /\ i' = 0
          /\ pc' = "loop"
          /\ remaining' = remaining - 1
          /\ ticks' = ticks + 1
          /\ clock' = tickClock
  /\ UNCHANGED <<currentPhase, pin, loopPos, pending, totalSecs, entryCount, lastYellow,
                 served, pedRuns>>

\* ------------------------------------------------------------ phase functions
\* The test of every countdown loop: for (...; remaining > 0; remaining--).
\* Faulty variant of countdownRunning: the loop runs once more, at remaining = 0.
countdownRunning_offByOne == remaining >= 0

\* Faulty variant of countdownRunning: a yellow is cut short when a pedestrian
\* request is pending.
countdownRunning_cutByRequest ==
  remaining > 0 /\ ~(pedRequest /\ currentPhase \in {PHASE_NS_YELLOW, PHASE_EW_YELLOW})

countdownRunning == remaining > 0

\* phaseNsGreen() up to its countdown loop.
phaseNsGreen ==
  /\ running = "phaseNsGreen" /\ pc = "entry"
  /\ currentPhase' = PHASE_NS_GREEN
  /\ totalSecs' = computeNsGreenSeconds
  /\ pending' = setNsGreenState
  /\ remaining' = computeNsGreenSeconds
  /\ pc' = "loop"
  /\ entryCount' = trafficCountNS
  /\ EnterPhase(PHASE_NS_GREEN)
  /\ UNCHANGED <<trafficCountNS, trafficCountEW, pedRequest, lastNsBtnState, lastEwBtnState,
                 lastPedBtnState, pin, lcdLine1, loopPos, i>>

\* Faulty variant of phaseNsGreenLoop: the count is not reset after the countdown.
phaseNsGreenLoop_noReset ==
  /\ running = "phaseNsGreen" /\ pc = "loop" /\ pending = <<>>
  /\ IF countdownRunning
     THEN /\ lcdLine1' = "NSG"
          /\ pc' = "wait"
          /\ UNCHANGED <<trafficCountNS, loopPos, totalSecs, remaining, i>>
     ELSE /\ Return
          /\ UNCHANGED <<trafficCountNS, lcdLine1>>
  /\ UNCHANGED <<currentPhase, trafficCountEW, pedRequest, lastNsBtnState, lastEwBtnState,
                 lastPedBtnState, pin, pending, ticks, entryCount, lastYellow, pedEdges, served, pedRuns,
                 polled, accepted, clock>>

\* The countdown loop of phaseNsGreen(): its test, and either the display of one
\* more second or, after the loop, the reset of the count and the return.
phaseNsGreenLoop ==
  /\ running = "phaseNsGreen" /\ pc = "loop" /\ pending = <<>>
  /\ IF countdownRunning
     THEN /\ lcdLine1' = "NSG"
          /\ pc' = "wait"
          /\ UNCHANGED <<trafficCountNS, loopPos, totalSecs, remaining, i>>
     ELSE /\ trafficCountNS' = 0
          /\ Return
          /\ UNCHANGED lcdLine1
  /\ UNCHANGED <<currentPhase, trafficCountEW, pedRequest, lastNsBtnState, lastEwBtnState,
                 lastPedBtnState, pin, pending, ticks, entryCount, lastYellow, pedEdges, served, pedRuns,
                 polled, accepted, clock>>

\* phaseNsYellow() up to its countdown loop.
phaseNsYellow ==
  /\ running = "phaseNsYellow" /\ pc = "entry"
  /\ currentPhase' = PHASE_NS_YELLOW
  /\ remaining' = YELLOW_TIME_SEC
  /\ pc' = "loop"
  /\ entryCount' = 0
  /\ EnterPhase(PHASE_NS_YELLOW)
  /\ UNCHANGED <<trafficCountNS, trafficCountEW, pedRequest, lastNsBtnState, lastEwBtnState,
                 lastPedBtnState, pin, lcdLine1, loopPos, pending, totalSecs, i>>

\* The countdown loop of phaseNsYellow(): the display and setNsYellowState() of
\* one more second, or the return.
phaseNsYellowLoop ==
  /\ running = "phaseNsYellow" /\ pc = "loop" /\ pending = <<>>
  /\ IF countdownRunning
     THEN /\ lcdLine1' = "NSY"
          /\ pending' = setNsYellowState
          /\ pc' = "wait"
          /\ UNCHANGED <<loopPos, totalSecs, remaining, i>>
     ELSE /\ Return
          /\ UNCHANGED <<lcdLine1, pending>>
  /\ UNCHANGED <<currentPhase, trafficCountNS, trafficCountEW, pedRequest, lastNsBtnState,
                 lastEwBtnState, lastPedBtnState, pin, ticks, entryCount, lastYellow,
                 pedEdges, served, pedRuns,
                 polled, accepted, clock>>

\* phaseEwGreen() up to its countdown loop.
phaseEwGreen ==
  /\ running = "phaseEwGreen" /\ pc = "entry"
  /\ currentPhase' = PHASE_EW_GREEN
  /\ totalSecs' = computeEwGreenSeconds
  /\ pending' = setEwGreenState
  /\ remaining' = computeEwGreenSeconds
  /\ pc' = "loop"
  /\ entryCount' = trafficCountEW
  /\ EnterPhase(PHASE_EW_GREEN)
  /\ UNCHANGED <<trafficCountNS, trafficCountEW, pedRequest, lastNsBtnState, lastEwBtnState,
                 lastPedBtnState, pin, lcdLine1, loopPos, i>>

\* The countdown loop of phaseEwGreen().
phaseEwGreenLoop ==
  /\ running = "phaseEwGreen" /\ pc = "loop" /\ pending = <<>>
  /\ IF countdownRunning
     THEN /\ lcdLine1' = "EWG"
          /\ pc' = "wait"
          /\ UNCHANGED <<trafficCountEW, loopPos, totalSecs, remaining, i>>
     ELSE /\ trafficCountEW' = 0
          /\ Return
          /\ UNCHANGED lcdLine1
  /\ UNCHANGED <<currentPhase, trafficCountNS, pedRequest, lastNsBtnState, lastEwBtnState,
                 lastPedBtnState, pin, pending, ticks, entryCount, lastYellow, pedEdges, served, pedRuns,
                 polled, accepted, clock>>

\* phaseEwYellow() up to its countdown loop.
phaseEwYellow ==
  /\ running = "phaseEwYellow" /\ pc = "entry"
  /\ currentPhase' = PHASE_EW_YELLOW
  /\ remaining' = YELLOW_TIME_SEC
  /\ pc' = "loop"
  /\ entryCount' = 0
  /\ EnterPhase(PHASE_EW_YELLOW)
  /\ UNCHANGED <<trafficCountNS, trafficCountEW, pedRequest, lastNsBtnState, lastEwBtnState,
                 lastPedBtnState, pin, lcdLine1, loopPos, pending, totalSecs, i>>

\* The countdown loop of phaseEwYellow().
phaseEwYellowLoop ==
  /\ running = "phaseEwYellow" /\ pc = "loop" /\ pending = <<>>
  /\ IF countdownRunning
     THEN /\ lcdLine1' = "EWY"
          /\ pending' = setEwYellowState
          /\ pc' = "wait"
          /\ UNCHANGED <<loopPos, totalSecs, remaining, i>>
     ELSE /\ Return
          /\ UNCHANGED <<lcdLine1, pending>>
  /\ UNCHANGED <<currentPhase, trafficCountNS, trafficCountEW, pedRequest, lastNsBtnState,
                 lastEwBtnState, lastPedBtnState, pin, ticks, entryCount, lastYellow,
                 pedEdges, served, pedRuns,
                 polled, accepted, clock>>

\* The test that opens phasePedestrianIfRequested(): no request, no phase.
\* Faulty variant of skipPedestrian: the insertion point before the NS green never serves.
skipPedestrian_secondSite == ~pedRequest \/ loopPos = 6

skipPedestrian == ~pedRequest

\* phasePedestrianIfRequested() up to its countdown loop: the early return, or
\* the entry of the pedestrian phase.
phasePedestrianIfRequested ==
  /\ running = "phasePedestrianIfRequested" /\ pc = "entry"
  /\ IF skipPedestrian
     THEN /\ Return
          /\ UNCHANGED <<currentPhase, pending, ticks, lastYellow, pedEdges, served, pedRuns,
                 polled, accepted, clock>>
     ELSE /\ currentPhase' = PHASE_PED_GREEN
          /\ pending' = setPedestrianGreenState
          /\ remaining' = PED_TIME_SEC
          /\ pc' = "loop"
          /\ EnterPhase(PHASE_PED_GREEN)
          /\ UNCHANGED <<loopPos, totalSecs, i>>
  /\ UNCHANGED <<trafficCountNS, trafficCountEW, pedRequest, lastNsBtnState, lastEwBtnState,
                 lastPedBtnState, pin, lcdLine1, entryCount>>

\* Faulty variant of phasePedestrianLoop: the display is not rewritten each second.
phasePedestrianLoop_noRefresh ==
  /\ running = "phasePedestrianIfRequested" /\ pc = "loop" /\ pending = <<>>
  /\ IF countdownRunning
     THEN /\ pc' = "wait"
          /\ UNCHANGED <<pending, lcdLine1>>
     ELSE /\ pending' = pedestrianStop
          /\ pc' = "end"
          /\ UNCHANGED lcdLine1
  /\ UNCHANGED <<currentPhase, trafficCountNS, trafficCountEW, pedRequest, lastNsBtnState,
                 lastEwBtnState, lastPedBtnState, pin, loopPos, totalSecs, remaining, i,
                 ticks, entryCount, lastYellow, pedEdges, served, pedRuns,
                 polled, accepted, clock>>

\* The countdown loop of phasePedestrianIfRequested(): the display of one more
\* second, or, after the loop, the start of the writes that end the phase.
phasePedestrianLoop ==
  /\ running = "phasePedestrianIfRequested" /\ pc = "loop" /\ pending = <<>>
  /\ IF countdownRunning
     THEN /\ lcdLine1' = "PEDESTRIAN"
          /\ pc' = "wait"
          /\ UNCHANGED pending
     ELSE /\ pending' = pedestrianStop
          /\ pc' = "end"
          /\ UNCHANGED lcdLine1
  /\ UNCHANGED <<currentPhase, trafficCountNS, trafficCountEW, pedRequest, lastNsBtnState,
                 lastEwBtnState, lastPedBtnState, pin, loopPos, totalSecs, remaining, i,
                 ticks, entryCount, lastYellow, pedEdges, served, pedRuns,
                 polled, accepted, clock>>

\* Faulty variant of phasePedestrianEnd: the counts are cleared with the request.
phasePedestrianEnd_clearsCounts ==
  /\ running = "phasePedestrianIfRequested" /\ pc = "end" /\ pending = <<>>
  /\ lcdLine1' = "PEDESTRIAN"
  /\ pedRequest' = FALSE
  /\ trafficCountNS' = 0
  /\ trafficCountEW' = 0
  /\ Return
  /\ UNCHANGED <<currentPhase, lastNsBtnState, lastEwBtnState, lastPedBtnState, pin, pending,
                 ticks, entryCount, lastYellow, pedEdges, served, pedRuns,
                 polled, accepted, clock>>

\* Faulty variant of phasePedestrianEnd: the request is not cleared.
phasePedestrianEnd_keepsLatch ==
  /\ running = "phasePedestrianIfRequested" /\ pc = "end" /\ pending = <<>>
  /\ lcdLine1' = "PEDESTRIAN"
  /\ Return
  /\ UNCHANGED <<currentPhase, trafficCountNS, trafficCountEW, pedRequest, lastNsBtnState,
                 lastEwBtnState, lastPedBtnState, pin, pending, ticks, entryCount, lastYellow,
                 pedEdges, served, pedRuns,
                 polled, accepted, clock>>

\* The end of phasePedestrianIfRequested(), once the outputs show stop: the
\* "PEDESTRIAN / STOP" display, the clearing of the request and the return.
phasePedestrianEnd ==
  /\ running = "phasePedestrianIfRequested" /\ pc = "end" /\ pending = <<>>
  /\ lcdLine1' = "PEDESTRIAN"
  /\ pedRequest' = FALSE
  /\ Return
  /\ UNCHANGED <<currentPhase, trafficCountNS, trafficCountEW, lastNsBtnState, lastEwBtnState,
                 lastPedBtnState, pin, pending, ticks, entryCount, lastYellow, pedEdges, served, pedRuns,
                 polled, accepted, clock>>

\* ------------------------------------------------------------ specification
Next ==
  \/ digitalWrite
  \/ waitOneSecondWithButtons
  \/ phaseNsGreen
  \/ phaseNsGreenLoop
  \/ phaseNsYellow
  \/ phaseNsYellowLoop
  \/ phaseEwGreen
  \/ phaseEwGreenLoop
  \/ phaseEwYellow
  \/ phaseEwYellowLoop
  \/ phasePedestrianIfRequested
  \/ phasePedestrianLoop
  \/ phasePedestrianEnd

Spec == Init /\ [][Next]_vars

\* ------------------------------------------------------------ the controller, ticks counted
\* The state after setup() with the tick history switched on.
InitTimed ==
  /\ currentPhase = PHASE_NS_GREEN
  /\ trafficCountNS = 0
  /\ trafficCountEW = 0
  /\ pedRequest = FALSE
  /\ lastNsBtnState = HIGH
  /\ lastEwBtnState = HIGH
  /\ lastPedBtnState = HIGH
  /\ pin = [p \in Pins |-> p \in {"NS_RED", "EW_RED", "PED_RED"}]
  /\ lcdLine1 = "Traffic System"
  /\ loopPos = 1
  /\ pc = "entry"
  /\ pending = <<>>
  /\ totalSecs = 0
  /\ remaining = 0
  /\ i = 0
  /\ ticks = 0
  /\ entryCount = 0
  /\ lastYellow = "none"
  /\ pedEdges = "none"
  /\ served = "none"
  /\ pedRuns = 0
  /\ polled = <<HIGH, HIGH, HIGH>>
  /\ accepted = [NS |-> 0, EW |-> 0]
  /\ clock = [on |-> TRUE, waitNS |-> 0, waitEW |-> 0, stoppedNS |-> 0, stoppedEW |-> 0]

SpecTimed == InitTimed /\ [][Next]_vars

\* loop() is called again and again and every delay() returns: a step that can
\* be taken is taken.
SpecFair == SpecTimed /\ WF_vars(Next)

\* ------------------------------------------------------------ the policy on its own
\* The green-time policy applied to counts drawn from 0..MaxPolicyCount.
InitPolicy ==
  /\ currentPhase = PHASE_NS_GREEN
  /\ trafficCountNS \in 0..MaxPolicyCount
  /\ trafficCountEW \in 0..MaxPolicyCount
  /\ pedRequest = FALSE
  /\ lastNsBtnState = HIGH
  /\ lastEwBtnState = HIGH
  /\ lastPedBtnState = HIGH
  /\ pin = [p \in Pins |-> p \in {"NS_RED", "EW_RED", "PED_RED"}]
  /\ lcdLine1 = "Traffic System"
  /\ loopPos = 1
  /\ pc = "policy"
  /\ pending = <<>>
  /\ totalSecs = 0
  /\ remaining = 0
  /\ i = 0
  /\ ticks = 0
  /\ entryCount = 0
  /\ lastYellow = "none"
  /\ pedEdges = "none"
  /\ served = "none"
  /\ pedRuns = 0
  /\ polled = <<HIGH, HIGH, HIGH>>
  /\ accepted = [NS |-> 0, EW |-> 0]
  /\ clock = [on |-> FALSE, waitNS |-> 0, waitEW |-> 0, stoppedNS |-> 0, stoppedEW |-> 0]

\* int totalSecs = computeNsGreenSeconds();
applyNsPolicy ==
  /\ pc = "policy"
  /\ totalSecs' = computeNsGreenSeconds
  /\ pc' = "policyNs"
  /\ UNCHANGED <<currentPhase, trafficCountNS, trafficCountEW, pedRequest, lastNsBtnState,
                 lastEwBtnState, lastPedBtnState, pin, lcdLine1, loopPos, pending, remaining,
                 i, ticks, entryCount, lastYellow, pedEdges, served, pedRuns,
                 polled, accepted, clock>>

\* int totalSecs = computeEwGreenSeconds();
applyEwPolicy ==
  /\ pc = "policy"
  /\ totalSecs' = computeEwGreenSeconds
  /\ pc' = "policyEw"
  /\ UNCHANGED <<currentPhase, trafficCountNS, trafficCountEW, pedRequest, lastNsBtnState,
                 lastEwBtnState, lastPedBtnState, pin, lcdLine1, loopPos, pending, remaining,
                 i, ticks, entryCount, lastYellow, pedEdges, served, pedRuns,
                 polled, accepted, clock>>

NextPolicy ==
  \/ applyNsPolicy
  \/ applyEwPolicy

SpecPolicy == InitPolicy /\ [][NextPolicy]_vars

\* ------------------------------------------------------------ claims
Greens == {PHASE_NS_GREEN, PHASE_EW_GREEN}
Yellows == {PHASE_NS_YELLOW, PHASE_EW_YELLOW}

\* The number of vehicle outputs (red, yellow, green) of approach a that are asserted.
Asserted(a) ==
  Cardinality({c \in {"RED", "YELLOW", "GREEN"} : pin[a \o "_" \o c]})

\* The green-time table as the claims state it.
seconds(c) == IF c < 5 THEN 10 ELSE IF c < 10 THEN 20 ELSE IF c < 15 THEN 30 ELSE 40

\* C1: in every reachable state, the states between the single output writes of
\* a signal-state change included, the NS green output and the EW green output
\* are never asserted together.
C1_NoConflictingGreens == ~(pin["NS_GREEN"] /\ pin["EW_GREEN"])

\* C1 witness: the EW green is asserted after an NS green and NS yellow have run.
C1_Witness == pin["EW_GREEN"] /\ lastYellow = "NS" /\ currentPhase = PHASE_EW_GREEN

\* C2: the pedestrian green output is asserted only while the current phase is
\* PED_GREEN, and then both approaches show red: neither has its green or its
\* yellow output asserted.
C2_PedestrianGreenAlone ==
  pin["PED_GREEN"] =>
    /\ currentPhase = PHASE_PED_GREEN
    /\ pin["NS_RED"] /\ ~pin["NS_YELLOW"] /\ ~pin["NS_GREEN"]
    /\ pin["EW_RED"] /\ ~pin["EW_YELLOW"] /\ ~pin["EW_GREEN"]

\* C2 witness: the pedestrian green is asserted while the pedestrian countdown runs.
C2_Witness == pin["PED_GREEN"] /\ pc = "wait" /\ remaining = PED_TIME_SEC

\* C3: at every instant, between the single output writes of a signal-state
\* change included, each approach has at most one of its red, yellow and green
\* outputs asserted.
C3_OneColourPerApproach == Asserted("NS") <= 1 /\ Asserted("EW") <= 1

\* C4: the phase changes only along NS_GREEN -> NS_YELLOW; NS_YELLOW -> PED_GREEN
\* if the request latch is set when the yellow ends, else EW_GREEN; EW_GREEN ->
\* EW_YELLOW; EW_YELLOW -> PED_GREEN if the latch is set, else NS_GREEN; PED_GREEN
\* -> the green of the approach that did not have the preceding yellow. No other
\* phase change occurs, and every state has a next step (no terminal state).
C4_PhaseSuccessor ==
  /\ [][currentPhase' # currentPhase =>
          \/ currentPhase = PHASE_NS_GREEN /\ currentPhase' = PHASE_NS_YELLOW
          \/ currentPhase = PHASE_NS_YELLOW
               /\ currentPhase' = (IF pedRequest THEN PHASE_PED_GREEN ELSE PHASE_EW_GREEN)
          \/ currentPhase = PHASE_EW_GREEN /\ currentPhase' = PHASE_EW_YELLOW
          \/ currentPhase = PHASE_EW_YELLOW
               /\ currentPhase' = (IF pedRequest THEN PHASE_PED_GREEN ELSE PHASE_NS_GREEN)
          \/ currentPhase = PHASE_PED_GREEN /\ lastYellow = "NS" /\ currentPhase' = PHASE_EW_GREEN
          \/ currentPhase = PHASE_PED_GREEN /\ lastYellow = "EW" /\ currentPhase' = PHASE_NS_GREEN
       ]_vars
  /\ [](ENABLED Next)

\* C4 witness: an NS green is running that followed an EW yellow and a pedestrian
\* phase (the edge on record was detected during that pedestrian phase).
C4_Witness ==
  currentPhase = PHASE_NS_GREEN /\ lastYellow = "EW" /\ pedEdges = "inPed" /\ ticks > 0

\* C5: for every count c, both approaches' policy returns 10 when c < 5, 20 when
\* 5 <= c < 10, 30 when 10 <= c < 15 and 40 when c >= 15; it is monotonic
\* non-decreasing, the two functions agree on every c, and total - 10 is one of
\* 0, 10, 20, 30.
C5_GreenTimePolicy ==
  /\ pc = "policyNs" => totalSecs = seconds(trafficCountNS)
  /\ pc = "policyEw" => totalSecs = seconds(trafficCountEW)
  /\ pc \in {"policyNs", "policyEw"} => totalSecs - BASE_GREEN_SEC \in {0, 10, 20, 30}
  /\ trafficCountNS = trafficCountEW => computeNsGreenSeconds = computeEwGreenSeconds
  /\ trafficCountNS <= trafficCountEW => computeNsGreenSeconds <= computeEwGreenSeconds
  /\ trafficCountEW <= trafficCountNS => computeEwGreenSeconds <= computeNsGreenSeconds

\* C5 witness: the EW policy applied to the threshold count 15 gave 40.
C5_Witness == pc = "policyEw" /\ trafficCountEW = 15 /\ totalSecs = 40

\* C6: every vehicle-green phase lasts exactly seconds(c) ticks, c being the
\* approach's count when the phase was entered, whatever the buttons do during
\* the phase.
C6_GreenDuration ==
  [][(currentPhase \in Greens) /\ currentPhase' # currentPhase
       => (ticks = seconds(entryCount))
    ]_vars

\* C6 witness: an EW green entered with count 16 has run its 40 ticks.
C6_Witness ==
  currentPhase = PHASE_EW_GREEN /\ entryCount = 16 /\ ticks = 40 /\ running = "phaseEwYellow"

\* C7: a press edge on an approach's count button increments that approach's
\* count by exactly 1 if the current phase is the other approach's green or
\* yellow or PED_GREEN, and leaves it unchanged otherwise; a press on one
\* approach's button never changes the other approach's count.
C7_CountOnlyWhenStopped ==
  [][LET nsEdge == lastNsBtnState = HIGH /\ lastNsBtnState' = LOW
         ewEdge == lastEwBtnState = HIGH /\ lastEwBtnState' = LOW
     IN /\ nsEdge => trafficCountNS' =
                        IF currentPhase \in {PHASE_EW_GREEN, PHASE_EW_YELLOW, PHASE_PED_GREEN}
                        THEN trafficCountNS + 1 ELSE trafficCountNS
        /\ ewEdge => trafficCountEW' =
                        IF currentPhase \in {PHASE_NS_GREEN, PHASE_NS_YELLOW, PHASE_PED_GREEN}
                        THEN trafficCountEW + 1 ELSE trafficCountEW
        /\ nsEdge /\ ~ewEdge => trafficCountEW' = trafficCountEW
        /\ ewEdge /\ ~nsEdge => trafficCountNS' = trafficCountNS
    ]_vars

\* C7 witness: NS presses were counted while NS was stopped, and a later NS press
\* during the NS green was turned down.
C7_Witness ==
  currentPhase = PHASE_NS_GREEN /\ trafficCountNS > 0 /\ lcdLine1 = "NS not RED"

\* The yellow that follows a green.
YellowOf(ph) == IF ph = PHASE_NS_GREEN THEN PHASE_NS_YELLOW ELSE PHASE_EW_YELLOW

\* The current phase is a yellow and this step leaves it: an insertion point.
YellowEnds == (currentPhase \in Yellows) /\ currentPhase' # currentPhase

\* This step is a readButtons() call that detects a pedestrian-button edge.
PedEdgeStep == lastPedBtnState = HIGH /\ lastPedBtnState' = LOW

\* A pedestrian edge that finds the latch set leaves it set and changes neither
\* the phase, the outputs, the position in loop() nor, unless its own button
\* has an edge in the same poll, a count.
LatchIdempotent ==
  PedEdgeStep /\ pedRequest =>
    /\ pedRequest'
    /\ currentPhase' = currentPhase
    /\ pin' = pin
    /\ pending' = pending
    /\ loopPos' = loopPos
    /\ totalSecs' = totalSecs
    /\ ~(lastNsBtnState = HIGH /\ lastNsBtnState' = LOW) => trafficCountNS' = trafficCountNS
    /\ ~(lastEwBtnState = HIGH /\ lastEwBtnState' = LOW) => trafficCountEW' = trafficCountEW

\* C8: a pedestrian request latched during a vehicle green never interrupts that
\* green or the yellow after it: the latch stays set, the green runs its
\* seconds(c) ticks and is followed by its yellow, the yellow runs its 3 ticks,
\* and PED_GREEN is the very next phase, before the opposite green.
C8_RequestWaitsForYellow ==
  [][pedEdges = "green" =>
       /\ pedRequest /\ pedRequest'
       /\ currentPhase \in Greens \cup Yellows
       /\ currentPhase' # currentPhase =>
            \/ /\ currentPhase \in Greens
               /\ currentPhase' = YellowOf(currentPhase)
               /\ ticks = seconds(entryCount)
            \/ /\ currentPhase \in Yellows
               /\ currentPhase' = PHASE_PED_GREEN
               /\ ticks = YELLOW_TIME_SEC
    ]_vars

\* C8 witness: the pedestrian green runs after the NS yellow, serving a request
\* latched during the NS green.
C8_Witness ==
  currentPhase = PHASE_PED_GREEN /\ served = "green" /\ lastYellow = "NS" /\ pin["PED_GREEN"]

\* C9 as stated: a pedestrian edge detected at any time, in any phase (PED_GREEN
\* included), is followed by a PED_GREEN phase at the first end-of-yellow after it.
C9_EveryEdgeServed ==
  [][YellowEnds /\ pedEdges # "none" => currentPhase' = PHASE_PED_GREEN]_vars

\* C9 amended: a pedestrian request latched during a vehicle phase (a green or
\* a yellow) stays latched and is serviced by a PED_GREEN phase at the first
\* end-of-yellow after the edge. (An edge detected while PED_GREEN is running
\* is cleared when that phase completes and is not served again.)
C9_VehiclePhaseEdgeServed ==
  [][(pedEdges \in {"green", "yellow"}) =>
       /\ pedRequest
       /\ YellowEnds => currentPhase' = PHASE_PED_GREEN
    ]_vars

\* C9 witness: the pedestrian green runs, serving a request latched during a yellow.
C9_Witness ==
  currentPhase = PHASE_PED_GREEN /\ served = "yellow" /\ pin["PED_GREEN"] /\ pc = "wait"

\* C10 as stated: the latch is idempotent, and one or more pedestrian edges
\* detected between two consecutive insertion points result in exactly one
\* PED_GREEN phase.
C10_OnePhasePerBatch ==
  /\ [][LatchIdempotent]_vars
  /\ [][YellowEnds /\ pedEdges # "none" => currentPhase' = PHASE_PED_GREEN]_vars
  /\ [](pedRuns <= 1)

\* C10 amended: the latch is idempotent (an edge that finds it set leaves it set
\* and changes nothing else of the controller's phase, counts or outputs); one
\* or more pedestrian edges detected between two consecutive insertion points
\* result in at most one PED_GREEN phase, and in exactly one when at least one
\* of the edges is detected during a vehicle phase.
C10_AtMostOnePhasePerBatch ==
  /\ [][LatchIdempotent]_vars
  /\ [][YellowEnds /\ (pedEdges \in {"green", "yellow"}) => currentPhase' = PHASE_PED_GREEN]_vars
  /\ [](pedRuns <= 1)

\* C10 witness: one pedestrian phase runs for a request latched during a vehicle
\* phase, and a further edge was detected with the latch already set.
C10_Witness ==
  /\ currentPhase = PHASE_PED_GREEN /\ pedRuns = 1
  /\ served \in {"green", "yellow"} /\ pedEdges = "inPed" /\ pedRequest

\* ------------------------------------------------------------ C11
\* The pedestrian phase is left: the phase changes away from PED_GREEN.
PedGreenEnds == (currentPhase = PHASE_PED_GREEN) /\ currentPhase' # currentPhase

\* The step that returns from a pedestrian phase that ran.
PedGreenReturns == (running = "phasePedestrianIfRequested") /\ pc = "end" /\ pc' = "entry"

\* C11: when a PED_GREEN phase completes the latch is false, and the phase
\* that follows it is the vehicle green of the fixed sequence (EW_GREEN when
\* the last yellow was NS_YELLOW, NS_GREEN when it was EW_YELLOW), entered with
\* the latch still false: never a second PED_GREEN, whatever edges came
\* during the PED_GREEN.
C11_AfterPedestrianGreen ==
  [][ /\ PedGreenReturns => ~pedRequest'
      /\ PedGreenEnds =>
            /\ ~pedRequest /\ ~pedRequest'
            /\ currentPhase' = IF lastYellow = "NS" THEN PHASE_EW_GREEN ELSE PHASE_NS_GREEN ]_vars

\* A pedestrian phase in which an edge was detected has been followed by
\* EW_GREEN, with the latch false.
C11_Witness ==
  /\ currentPhase = PHASE_EW_GREEN /\ lastYellow = "NS" /\ pedEdges = "inPed"
  /\ ~pedRequest /\ pc = "wait"

\* ------------------------------------------------------------ C12
\* This step is a readButtons() call.
PollStep == pc = "wait" /\ pending = <<>>

\* C12: an edge detected in any tick of a phase, the final tick included, has
\* taken effect when the decision after that phase is made. Every
\* readButtons() call applies its edges in the same step (latch set, count of
\* a stopped approach incremented); a latch set during a yellow is still set
\* at the end of that yellow and makes PED_GREEN the next phase; no step other
\* than a readButtons() call changes the count of an approach outside its own
\* green; and the green's entry takes its duration from the count as it then
\* stands.
C12_EdgeVisibleAtDecision ==
  [][LET nsEdge == lastNsBtnState = HIGH /\ lastNsBtnState' = LOW
         ewEdge == lastEwBtnState = HIGH /\ lastEwBtnState' = LOW
     IN /\ PedEdgeStep => pedRequest'
        /\ (currentPhase \in Yellows) /\ pedRequest => pedRequest'
        /\ YellowEnds /\ pedRequest => currentPhase' = PHASE_PED_GREEN
        /\ nsEdge /\ currentPhase \notin {PHASE_NS_GREEN, PHASE_NS_YELLOW}
              => trafficCountNS' = trafficCountNS + 1
        /\ ewEdge /\ currentPhase \notin {PHASE_EW_GREEN, PHASE_EW_YELLOW}
              => trafficCountEW' = trafficCountEW + 1
        /\ ~PollStep /\ currentPhase # PHASE_NS_GREEN => trafficCountNS' = trafficCountNS
        /\ ~PollStep /\ currentPhase # PHASE_EW_GREEN => trafficCountEW' = trafficCountEW
        /\ (running = "phaseNsGreen") /\ pc = "entry"
              => totalSecs' = seconds(trafficCountNS) /\ remaining' = totalSecs'
        /\ (running = "phaseEwGreen") /\ pc = "entry"
              => totalSecs' = seconds(trafficCountEW) /\ remaining' = totalSecs'
    ]_vars

\* The NS green has just been entered with line 1 still showing the acknowledgement
\* of an NS press counted in the last tick of the EW yellow, the press that
\* took the count to 5, and runs 20 seconds.
C12_Witness ==
  /\ currentPhase = PHASE_NS_GREEN /\ pc = "loop" /\ ticks = 0 /\ lastYellow = "EW"
  /\ lcdLine1 = "NS RED: Count" /\ entryCount = 5 /\ totalSecs = 20

\* ------------------------------------------------------------ C13
\* The identifier line 1 shows for a phase.
PhaseId(ph) ==
  CASE ph = PHASE_NS_GREEN -> "NSG"
    [] ph = PHASE_NS_YELLOW -> "NSY"
    [] ph = PHASE_EW_GREEN -> "EWG"
    [] ph = PHASE_EW_YELLOW -> "EWY"
    [] ph = PHASE_PED_GREEN -> "PEDESTRIAN"

\* A tick of the running phase is in progress, or one is over and the next
\* one of the same countdown has not started.
PhaseRunning == pc = "wait" \/ (pc = "loop" /\ ticks > 0 /\ remaining > 0)

GreenCompletes(ph) ==
  /\ currentPhase = ph /\ pc = "loop" /\ pending = <<>>
  /\ remaining = 0 /\ ticks = totalSecs

\* C14: a count is set to 0 at the completion of its own approach's green
\* countdown and by no other step; every other change of a count is the
\* increment by 1 of a readButtons() call that detects an edge of its button.
\* The completion of PED_GREEN, the yellows and the other approach's green
\* therefore leave both counts as the accepted edges made them.
C14_ResetOnlyAtOwnGreenEnd ==
  [][LET nsEdge == lastNsBtnState = HIGH /\ lastNsBtnState' = LOW
         ewEdge == lastEwBtnState = HIGH /\ lastEwBtnState' = LOW
     IN /\ GreenCompletes(PHASE_NS_GREEN) => trafficCountNS' = 0
        /\ GreenCompletes(PHASE_EW_GREEN) => trafficCountEW' = 0
        /\ trafficCountNS' # trafficCountNS =>
              \/ GreenCompletes(PHASE_NS_GREEN) /\ trafficCountNS' = 0
              \/ PollStep /\ nsEdge /\ trafficCountNS' = trafficCountNS + 1
        /\ trafficCountEW' # trafficCountEW =>
              \/ GreenCompletes(PHASE_EW_GREEN) /\ trafficCountEW' = 0
              \/ PollStep /\ ewEdge /\ trafficCountEW' = trafficCountEW + 1
    ]_vars

\* A pedestrian phase that followed the EW yellow has completed and both counts
\* are still positive.
C14_Witness ==
  /\ currentPhase = PHASE_PED_GREEN /\ pc = "entry" /\ ticks = PED_TIME_SEC
  /\ lastYellow = "EW" /\ trafficCountNS > 0 /\ trafficCountEW > 0

\* ------------------------------------------------------------ C17
\* The green of phase ph has just been entered.
GreenStarts(ph) == currentPhase = ph /\ pc = "loop" /\ ticks = 0 /\ remaining = totalSecs

\* C17: no approach is starved. Whatever the buttons do, as long as steps keep
\* being taken NS_GREEN and EW_GREEN each start again and again, and an
\* approach whose green has ended has waited at most 3 + 8 + 40 + 3 + 8 = 62
\* ticks when its next green starts.
C17_NoStarvation ==
  /\ [](clock.waitNS <= 62 /\ clock.waitEW <= 62)
  /\ []<>GreenStarts(PHASE_NS_GREEN)
  /\ []<>GreenStarts(PHASE_EW_GREEN)

\* The NS green is about to start after a wait of 62 ticks: both insertion
\* points were taken and the EW green ran 40 seconds.
C17_Witness ==
  /\ clock.on /\ clock.waitNS = 62 /\ running = "phaseNsGreen" /\ pc = "entry"

\* ------------------------------------------------------------ C15
\* C15: a count button contributes at most one increment per press. A count
\* goes up only by 1 and only in a readButtons() call that reads its button
\* active when the call before read it inactive, so a button read active by
\* consecutive calls, across ticks and phases, adds nothing after the first of
\* them; and every call records the level it read, whether or not it counted
\* the edge, so a press turned down while the approach was not stopped is not
\* taken for a new one later.
C15_OneIncrementPerPress ==
  [][/\ trafficCountNS' > trafficCountNS =>
          polled[1] = HIGH /\ polled'[1] = LOW /\ trafficCountNS' = trafficCountNS + 1
     /\ trafficCountEW' > trafficCountEW =>
          polled[2] = HIGH /\ polled'[2] = LOW /\ trafficCountEW' = trafficCountEW + 1
     /\ PollStep => lastNsBtnState' = polled'[1] /\ lastEwBtnState' = polled'[2]
    ]_vars

\* The NS button, pressed while NS was not stopped, is still read active after
\* a tick of the EW green, and the NS count is 0.
C15_Witness ==
  /\ currentPhase = PHASE_EW_GREEN /\ pc = "loop" /\ ticks > 0
  /\ polled[1] = LOW /\ trafficCountNS = 0

\* ------------------------------------------------------------ C16
\* C16: every yellow lasts exactly 3 ticks and every PED_GREEN exactly 8,
\* whatever the buttons do. A yellow or a PED_GREEN is left only after that
\* many ticks; and once a countdown has started, no step ends it early,
\* restarts or extends it: while the phase lasts, the seconds remaining change
\* only by the 1 that each completed tick takes off, and the phase function
\* returns only at 0.
C16_FixedDurations ==
  [][/\ YellowEnds => ticks = 3
     /\ PedGreenEnds => ticks = 8
     /\ (currentPhase \in Yellows \cup {PHASE_PED_GREEN}) /\ pc \in {"loop", "wait"} =>
          /\ remaining + ticks = IF currentPhase = PHASE_PED_GREEN THEN 8 ELSE 3
          /\ \/ remaining' = remaining /\ ticks' = ticks
             \/ remaining' = remaining - 1 /\ ticks' = ticks + 1 /\ PollStep
             \/ remaining = 0 /\ pc' \in {"entry", "end"}
    ]_vars

\* A PED_GREEN has run its 8 ticks with a pedestrian edge detected during it
\* and vehicle presses counted.
C16_Witness ==
  /\ currentPhase = PHASE_PED_GREEN /\ pc = "end" /\ ticks = 8
  /\ pedEdges = "inPed" /\ trafficCountNS > 0

\* ------------------------------------------------------------ C18
\* C18: counts are conserved. Outside its own green an approach's count equals
\* the press edges of its button detected while it was stopped since its green
\* last ended (since start-up before its first green), so that is the count
\* its green's entry reads; during its green the count read at the entry
\* still equals that number; and during its own yellow its count is 0.
C18_CountConservation ==
  /\ currentPhase # PHASE_NS_GREEN => trafficCountNS = accepted.NS
  /\ currentPhase # PHASE_EW_GREEN => trafficCountEW = accepted.EW
  /\ currentPhase = PHASE_NS_GREEN => entryCount = accepted.NS
  /\ currentPhase = PHASE_EW_GREEN => entryCount = accepted.EW
  /\ currentPhase = PHASE_NS_YELLOW => trafficCountNS = 0
  /\ currentPhase = PHASE_EW_YELLOW => trafficCountEW = 0

\* An EW green has been entered after a PED_GREEN and has read a count of 11,
\* the presses detected while EW was stopped; the NS count is being built up.
C18_Witness ==
  /\ currentPhase = PHASE_EW_GREEN /\ pc = "wait" /\ ticks = 1 /\ pending = <<>>
  /\ entryCount = 11 /\ accepted.EW = 11 /\ pedEdges = "inPed"
  /\ trafficCountNS = 3 /\ accepted.NS = 3

\* ------------------------------------------------------------ C19
\* The most edges one button can show in the polls of one tick: an edge needs a
\* poll that reads inactive before the one that reads active.
EdgesPerTick == (PollsPerTick + 1) \div 2

C20_RedMatchesStoppedAtPoll ==
  PollStep => /\ pin["NS_RED"] = isNsRed
              /\ pin["EW_RED"] = isEwRed

\* readButtons() is about to be called for the first time in an NS yellow, after
\* EW presses were counted: the NS red is off, the EW red is on.
C20_Witness ==
  /\ PollStep /\ currentPhase = PHASE_NS_YELLOW /\ ticks = 0 /\ i = 0
  /\ ~pin["NS_RED"] /\ pin["EW_RED"] /\ pin["NS_YELLOW"] /\ trafficCountEW > 0

====
